---- MODULE Spec2Model ----
(***************************************************************************)
(* Model of the cmskit CLI component installer: the registry client        *)
(* (ComponentRegistry.getComponent / getComponents), the dependency        *)
(* resolver (ComponentInstaller.resolveComponentsWithDependencies), the    *)
(* per-file installation loop (installComponents / installComponent), the  *)
(* content adapter (processFileContent), installDependencies, the project  *)
(* detector (ProjectAnalyzer.analyze, findUp) and the install command.     *)
(*                                                                         *)
(* Spec, SpecResolve, FairSpecResolve and SpecDeps run the installer;      *)
(* SpecAdapt, SpecDetect, SpecCli, SpecLifetime, SpecRace and SpecRegistry *)
(* each look at one function or collaborator, with variables of their own. *)
(*                                                                         *)
(* Strings that the code transforms (file contents) are sequences of       *)
(* one-character strings; paths are sequences of segments.  An optional    *)
(* field is a sequence of length 0 (undefined) or 1 (the value).           *)
(***************************************************************************)
EXTENDS Integers, Sequences, FiniteSets, TLC

\* ------------------------------------------------------------------ bounds
MaxReq == 2         \* longest componentIds argument of one call
MaxDeps == 2        \* longest registryDependencies list in the resolver study
MaxFiles == 2       \* longest files list of the component under study
MaxCalls == 2       \* installComponents calls on one installer instance
MaxDepCalls == 1    \* installDependencies calls on one installer instance
MaxFrags == 3       \* fragments an input text of the content adapter is made of
MaxApply == 2       \* successive applications of the content adapter to one text
MaxDepth == 2       \* deepest working directory of the project detector, in levels below /
MaxConfigs == 2     \* svelte config files present in the directory chain
MaxInstallers == 2  \* installer instances constructed one after the other
MaxRegistryCalls == 3 \* getComponent calls made on one registry client, batch members included
MaxBatch == 2       \* longest componentIds argument of getComponents

\* ------------------------------------------------------------ identifiers
AllIds == {"card", "button", "badge", "ghost"}
GraphIds == {"card", "button", "badge"}

\* ------------------------------------------------------- generic helpers
Range(s) == {s[i] : i \in 1..Len(s)}

NoDup(s) == \A i, j \in 1..Len(s) : s[i] = s[j] => i = j

SeqsUpTo(S, n) == UNION {[1..k -> S] : k \in 0..n}

DistinctSeqsUpTo(S, n) == {s \in SeqsUpTo(S, n) : NoDup(s)}

SubsetsUpTo(S, n) == {T \in SUBSET S : Cardinality(T) <= n}

\* the concatenation of a sequence of sequences
RECURSIVE Flatten(_)
Flatten(parts) == IF parts = <<>> THEN <<>> ELSE Head(parts) \o Flatten(Tail(parts))

None == <<>>
Some(x) == <<x>>

\* `x || []` of the source, for an optional list
OrEmpty(opt) == IF opt = None THEN <<>> ELSE opt[1]

\* --------------------------------------------------------------- registry
\* Display name of a descriptor (ComponentSchema.name), distinct from its id.
NameOf(id) == <<"name", id>>

\* A descriptor as ComponentSchema parses it.
Descriptor(id, regDeps, files, deps, devDeps) ==
    [id |-> id, name |-> NameOf(id), dependencies |-> deps, devDependencies |-> devDeps,
     registryDependencies |-> regDeps, files |-> files]

\* What the registry server answers for GET /registry/components/{id}:
\* ok = response.ok, valid = the body passes ComponentSchema.parse.
Found(c) == [ok |-> TRUE, valid |-> TRUE, data |-> c]
NotFound == [ok |-> FALSE, valid |-> FALSE, data |-> <<>>]
Malformed == [ok |-> TRUE, valid |-> FALSE, data |-> <<>>]

VARIABLES
    server,         \* registry contents: id -> response of the server
    cache,          \* ComponentRegistry.cache: Map id -> descriptor
    force, dryRun,  \* InstallerOptions.force / dryRun
    typescript,     \* options.projectInfo.config.typescript
    packageManager, \* options.projectInfo.config.packageManager
    installedDeps,  \* ComponentInstaller.installedDeps (a Set, in insertion order)
    fs,             \* the filesystem: existing path -> content
    pc,             \* position of the running installComponents / installDependencies
    componentIds,   \* argument of the running installComponents call
    toResolve,      \* resolver work queue
    resolved,       \* resolver Map, as its entries in insertion order
    ci, fi,         \* index of the component / file being installed
    installedFiles, \* installComponent's local installedFiles
    results,        \* installComponents' local results
    execLog,        \* invocations of the package-manager executor (execa)
    depThrew,       \* the last installDependencies call rejected
    lastOp,         \* the public method that finished last
    calls, depCalls,\* number of installComponents / installDependencies calls made
    fsAtCall, depsAtCall, execAtCall, \* snapshots taken when the running call started
    history,        \* finished installComponents calls
    text,           \* content adapter study: the raw content
    adapted,        \* content adapter study: results of successive applications
    projectTree,    \* project detector: the paths that exist in the project tree
    packageJson,    \* project detector: what <cwd>/package.json holds
    cwd,            \* ProjectAnalyzer.cwd
    dpc,            \* position of the running analyze call
    dir,            \* findUp's local dir
    examined,       \* directories the running findUp call has looked into, in order
    svelteConfig, tsconfigPath, tailwindConfig, \* results of the three findUp calls
    projectInfo,    \* what analyze returned
    cliPc,          \* position of the install command's action
    cliComponents,  \* the install command's components argument
    shouldContinue, \* the answer to the install command's confirmation prompt
    instances,      \* number of ComponentInstaller instances constructed so far
    appended,       \* ids pushed onto the resolver queue by the running call, in order
    requested,      \* ids the running resolve call passed to getComponent, in order
    external,       \* paths created by a process other than the installer
    raced,          \* those created between the installer's check of the path and its write
    rcalls,         \* registry client: the getComponent calls made, in the order they started
    events,         \* registry client: cache hits, fetches issued and fetches settled, in order
    batch           \* registry client: the getComponents call, if one was made

\* the variables of the studies that look at one function or collaborator alone
adaptVars == <<text, adapted>>
findUpVars == <<dir, examined>>
foundVars == <<svelteConfig, tsconfigPath, tailwindConfig>>
projectVars == <<projectTree, packageJson, cwd>>
detectVars == <<projectVars, dpc, findUpVars, foundVars, projectInfo>>
cliVars == <<cliPc, cliComponents, shouldContinue>>
lifetimeVars == <<instances>>
traceVars == <<appended, requested>>
raceVars == <<external, raced>>
registryVars == <<rcalls, events, batch>>
studyVars == <<adaptVars, detectVars, cliVars, lifetimeVars, traceVars, raceVars, registryVars>>

coreVars == <<server, cache, force, dryRun, typescript, packageManager, installedDeps, fs, pc,
              componentIds, toResolve, resolved, ci, fi, installedFiles, results, execLog,
              depThrew, lastOp, calls, depCalls, fsAtCall, depsAtCall, execAtCall, history>>

vars == <<coreVars, studyVars>>

\* everything but the variables of one study
outsideAdapt == <<coreVars, detectVars, cliVars, lifetimeVars, traceVars, raceVars,
    registryVars>>
outsideDetect == <<coreVars, adaptVars, cliVars, lifetimeVars, traceVars, raceVars,
    registryVars>>
outsideCli == <<adaptVars, detectVars, lifetimeVars, traceVars, raceVars,
    registryVars>>
outsideLifetime == <<adaptVars, detectVars, cliVars, traceVars, raceVars,
    registryVars>>
outsideTrace == <<adaptVars, detectVars, cliVars, lifetimeVars, raceVars,
    registryVars>>
outsideRace == <<adaptVars, detectVars, cliVars, lifetimeVars, traceVars,
    registryVars>>

outsideRegistry == <<adaptVars, detectVars, cliVars, lifetimeVars, traceVars, raceVars>>

optionVars == <<force, dryRun, typescript, packageManager>>
resolverVars == <<toResolve, resolved>>
installVars == <<ci, fi, installedFiles, results>>
snapshotVars == <<fsAtCall, depsAtCall, execAtCall>>
execVars == <<execLog, depThrew, depCalls>>

\* ComponentRegistry.getComponent: cache hit, or fetch + parse + cache.
CacheHit(id) == id \in DOMAIN cache

FetchSucceeds(id) == server[id].ok /\ server[id].valid

CacheSet(m, id, c) == [k \in DOMAIN m \cup {id} |-> IF k = id THEN c ELSE m[k]]

GetComponentThrows(id) == ~CacheHit(id) /\ ~FetchSucceeds(id)

GetComponentValue(id) == IF CacheHit(id) THEN cache[id] ELSE server[id].data

GetComponentCache(id) == IF CacheHit(id) THEN cache ELSE CacheSet(cache, id, server[id].data)

\* --------------------------------------------------------------- resolver
\* Map operations on the insertion-ordered entry list.
MapKeys(m) == {m[i].key : i \in 1..Len(m)}

MapHas(m, k) == k \in MapKeys(m)

MapSet(m, k, v) ==
    IF MapHas(m, k)
    THEN [i \in 1..Len(m) |-> IF m[i].key = k THEN [key |-> k, value |-> v] ELSE m[i]]
    ELSE Append(m, [key |-> k, value |-> v])

MapValues(m) == [i \in 1..Len(m) |-> m[i].value]

\* Faulty variant: reads the front of the queue without removing it.
Shifted_peek(queue) == queue

\* toResolve.shift(): the queue that remains
Shifted(queue) == Tail(queue)

\* Faulty variant: the resolved-mapping check before the push is missing.
PushDeps_noGate(queue, m, regDeps) == queue \o OrEmpty(regDeps)

\* Faulty variant: unshift instead of push (depth-first order).
PushDeps_unshift(queue, m, regDeps) ==
    SelectSeq(OrEmpty(regDeps), LAMBDA dep : ~MapHas(m, dep)) \o queue

\* Faulty variant: only the first registry dependency is queued.
PushDeps_firstOnly(queue, m, regDeps) ==
    queue \o SelectSeq(IF OrEmpty(regDeps) = <<>> THEN <<>> ELSE <<Head(OrEmpty(regDeps))>>,
                       LAMBDA dep : ~MapHas(m, dep))

\* component.registryDependencies.forEach(dep => if (!resolved.has(dep)) toResolve.push(dep))
PushDeps(queue, m, regDeps) ==
    queue \o SelectSeq(OrEmpty(regDeps), LAMBDA dep : ~MapHas(m, dep))

\* The queue never outgrows this in the code; the guard keeps a faulty variant finite.
MaxQueue == MaxReq + Cardinality(AllIds) * (MaxDeps + 1)

\* installComponents entry: results = [], then the resolver's setup.
InstallComponentsCall(ids) ==
    /\ pc = "idle"
    /\ calls < MaxCalls
    /\ calls' = calls + 1
    /\ componentIds' = ids
    /\ results' = <<>>
    /\ resolved' = <<>>
    /\ toResolve' = ids
    /\ fsAtCall' = fs /\ depsAtCall' = installedDeps /\ execAtCall' = execLog
    /\ pc' = "resolve"
    /\ appended' = <<>> /\ requested' = <<>>
    /\ UNCHANGED <<outsideTrace, server, cache, optionVars, installedDeps, fs, ci, fi, installedFiles,
                   execVars, lastOp, history>>

\* One loop iteration: the popped id is already resolved.
ResolveSkip ==
    /\ pc = "resolve"
    /\ toResolve # <<>>
    /\ MapHas(resolved, Head(toResolve))
    /\ toResolve' = Shifted(toResolve)
    /\ UNCHANGED <<studyVars, server, cache, optionVars, installedDeps, fs, pc, componentIds, resolved,
                   installVars, execVars, lastOp, calls, snapshotVars, history>>

\* One loop iteration: fetch the popped id, record it, queue its dependencies.
ResolveFetch ==
    /\ pc = "resolve"
    /\ toResolve # <<>>
    /\ LET id == Head(toResolve)
           component == GetComponentValue(id)
           m == MapSet(resolved, id, component)
       IN /\ ~MapHas(resolved, id)
          /\ ~GetComponentThrows(id)
          /\ cache' = GetComponentCache(id)
          /\ resolved' = m
          /\ toResolve' = PushDeps(Shifted(toResolve), m, component.registryDependencies)
          /\ Len(toResolve') <= MaxQueue
          /\ requested' = Append(requested, id)
          /\ appended' = appended \o SubSeq(toResolve', Len(toResolve), Len(toResolve'))
    /\ UNCHANGED <<outsideTrace, server, optionVars, installedDeps, fs, pc, componentIds,
                   installVars, execVars, lastOp, calls, snapshotVars, history>>

\* Faulty variant: the fetch error is swallowed and the loop goes on.
ResolveFail_swallow ==
    /\ pc = "resolve"
    /\ toResolve # <<>>
    /\ ~MapHas(resolved, Head(toResolve))
    /\ GetComponentThrows(Head(toResolve))
    /\ toResolve' = Shifted(toResolve)
    /\ UNCHANGED <<studyVars, server, cache, optionVars, installedDeps, fs, pc, componentIds, resolved,
                   installVars, execVars, lastOp, calls, snapshotVars, history>>

\* One loop iteration: getComponent throws; the rejection leaves installComponents.
ResolveFail ==
    /\ pc = "resolve"
    /\ toResolve # <<>>
    /\ ~MapHas(resolved, Head(toResolve))
    /\ GetComponentThrows(Head(toResolve))
    /\ toResolve' = Shifted(toResolve)
    /\ pc' = "idle"
    /\ lastOp' = "installComponents"
    /\ history' = Append(history, [ids |-> componentIds, threw |-> TRUE, results |-> <<>>,
                                   components |-> <<>>,
                                   fsBefore |-> fsAtCall, fsAfter |-> fs,
                                   depsBefore |-> depsAtCall, depsAfter |-> installedDeps])
    /\ requested' = Append(requested, Head(toResolve))
    /\ UNCHANGED <<outsideTrace, appended, server, cache, optionVars, installedDeps, fs, componentIds, resolved,
                   installVars, execVars, calls, snapshotVars>>

\* The queue is empty: return Array.from(resolved.values()); the install loop starts.
ResolveReturn ==
    /\ pc = "resolve"
    /\ toResolve = <<>>
    /\ pc' = "install"
    /\ ci' = 1 /\ fi' = 1 /\ installedFiles' = <<>>
    /\ UNCHANGED <<studyVars, server, cache, optionVars, installedDeps, fs, componentIds, resolverVars,
                   results, execVars, lastOp, calls, snapshotVars, history>>

\* allComponents of installComponents
AllComponents == MapValues(resolved)

ResolveLoop == ResolveSkip \/ ResolveFetch \/ ResolveFail \/ ResolveReturn

\* ------------------------------------------------------------- file layout
\* The installation target directory passed to installComponents.
TargetPath == <<"ui">>

\* path.join: concatenate, then normalise ".." segments.
RECURSIVE Normalize(_, _)
Normalize(done, rest) ==
    IF rest = <<>> THEN done
    ELSE IF Head(rest) = ".." /\ done # <<>> /\ done[Len(done)] # ".."
         THEN Normalize(SubSeq(done, 1, Len(done) - 1), Tail(rest))
         ELSE Normalize(Append(done, Head(rest)), Tail(rest))

Join(a, b, c) == Normalize(<<>>, a \o b \o c)

File(path, content) == [path |-> path, content |-> content, type |-> "component"]

\* ---------------------------------------------------- resolver study: Init
\* registryDependencies of one descriptor: absent, or a non-empty list of distinct ids
RegDepChoices ==
    {None} \cup {Some(s) : s \in DistinctSeqsUpTo(GraphIds, MaxDeps) \ {<<>>}}

PlainFile == File(<<"index.svelte">>, <<"<", "p", ">">>)

GraphServer(g) ==
    [id \in AllIds |->
        IF id \in GraphIds
        THEN Found(Descriptor(id, g[id], <<PlainFile>>, <<"clsx">>, None))
        ELSE NotFound]

InitCommon ==
    /\ cache = <<>>
    /\ installedDeps = <<>>
    /\ pc = "idle"
    /\ componentIds = <<>>
    /\ toResolve = <<>>
    /\ resolved = <<>>
    /\ ci = 0 /\ fi = 0
    /\ installedFiles = <<>>
    /\ results = <<>>
    /\ execLog = <<>>
    /\ depThrew = FALSE
    /\ lastOp = "none"
    /\ calls = 0 /\ depCalls = 0
    /\ fsAtCall = fs /\ depsAtCall = <<>> /\ execAtCall = <<>>
    /\ history = <<>>
    /\ appended = <<>> /\ requested = <<>>

\* the studies that are not running
InitNoAdapt == text = <<>> /\ adapted = <<>>

InitNoDetect ==
    /\ projectTree = {} /\ packageJson = "absent" /\ cwd = <<>>
    /\ dpc = "idle" /\ dir = <<>> /\ examined = <<>>
    /\ svelteConfig = None /\ tsconfigPath = None /\ tailwindConfig = None
    /\ projectInfo = None

InitNoCli == cliPc = "off" /\ cliComponents = <<>> /\ shouldContinue = None

InitNoLifetime == instances = 1

InitNoRace == external = {} /\ raced = {}

InitNoRegistry == rcalls = <<>> /\ events = <<>> /\ batch = None

InitNoStudy ==
    InitNoAdapt /\ InitNoDetect /\ InitNoCli /\ InitNoLifetime /\ InitNoRace /\ InitNoRegistry

InitResolve ==
    /\ server \in {GraphServer(g) : g \in [GraphIds -> RegDepChoices]}
    /\ force = FALSE /\ dryRun = TRUE
    /\ typescript = TRUE
    /\ packageManager = "npm"
    /\ fs = <<>>
    /\ InitCommon
    /\ InitNoStudy

\* The resolver study makes one call per behaviour.
NextResolve ==
    \/ \E ids \in SeqsUpTo(AllIds, MaxReq) : calls = 0 /\ InstallComponentsCall(ids)
    \/ ResolveSkip
    \/ ResolveFetch
    \/ ResolveFail
    \/ ResolveReturn

SpecResolve == InitResolve /\ [][NextResolve]_vars

\* Termination study: one call that requests a single identifier, over the same
\* graphs.  The continuation of an awaited getComponent always runs once the
\* fetch settles, hence weak fairness of the loop.
NextCycle ==
    \/ \E id \in AllIds : calls = 0 /\ InstallComponentsCall(<<id>>)
    \/ ResolveSkip
    \/ ResolveFetch
    \/ ResolveFail
    \/ ResolveReturn

FairSpecResolve == InitResolve /\ [][NextCycle]_vars /\ WF_vars(ResolveLoop)

\* ------------------------------------------------------------ file writing
\* Faulty variant: the g flag is missing, only the first match is replaced.
RECURSIVE ReplaceAll_firstOnly(_, _, _)
ReplaceAll_firstOnly(str, pat, by) ==
    IF Len(str) < Len(pat) THEN str
    ELSE IF SubSeq(str, 1, Len(pat)) = pat
         THEN by \o SubSeq(str, Len(pat) + 1, Len(str))
         ELSE <<Head(str)>> \o ReplaceAll_firstOnly(Tail(str), pat, by)

\* String.prototype.replace(/pat/g, rep) for a literal pattern: leftmost,
\* non-overlapping matches, the replacement is not rescanned.
RECURSIVE ReplaceAll(_, _, _)
ReplaceAll(str, pat, by) ==
    IF Len(str) < Len(pat) THEN str
    ELSE IF SubSeq(str, 1, Len(pat)) = pat
         THEN by \o ReplaceAll(SubSeq(str, Len(pat) + 1, Len(str)), pat, by)
         ELSE <<Head(str)>> \o ReplaceAll(Tail(str), pat, by)

LibAlias == <<"$", "l", "i", "b", "/">>
ComponentsAlias == <<"$", "c", "o", "m", "p", "o", "n", "e", "n", "t", "s", "/">>
LibComponents == <<"$", "l", "i", "b", "/", "c", "o", "m", "p", "o", "n", "e", "n", "t", "s", "/">>
TsSingle == <<".", "t", "s", "'">>
JsSingle == <<".", "j", "s", "'">>
TsDouble == <<".", "t", "s", "\"">>
JsDouble == <<".", "j", "s", "\"">>

\* Faulty variant: the extension rewriting is applied whatever config.typescript says.
ProcessFileContent_alwaysJs(content, ts) ==
    LET c1 == ReplaceAll(content, LibAlias, LibAlias)
        c2 == ReplaceAll(c1, ComponentsAlias, LibComponents)
        c3 == ReplaceAll(c2, TsSingle, JsSingle)
        c4 == ReplaceAll(c3, TsDouble, JsDouble)
    IN c4

\* ComponentInstaller.processFileContent
ProcessFileContent(content, ts) ==
    LET c1 == ReplaceAll(content, LibAlias, LibAlias)
        c2 == ReplaceAll(c1, ComponentsAlias, LibComponents)
        c3 == IF ~ts THEN ReplaceAll(c2, TsSingle, JsSingle) ELSE c2
        c4 == IF ~ts THEN ReplaceAll(c3, TsDouble, JsDouble) ELSE c3
    IN c4

\* Faulty variant: the check looks at a path that is never there.
ExistsSync_never(disk, path) == FALSE

\* existsSync(path)
ExistsSync(disk, path) == path \in DOMAIN disk

\* fs.writeFile(path, content): create or replace
WriteFile(disk, path, content) ==
    [q \in DOMAIN disk \cup {path} |-> IF q = path THEN content ELSE disk[q]]

\* join(targetPath, component.id, file.path)
FilePathOf(component, file) == Join(TargetPath, <<component.id>>, file.path)

\* new Error(`File already exists: ${filePath}`).message
FileExistsMessage(filePath) == <<"File already exists: ", filePath>>

\* Faulty variant: the force flag is read the wrong way round.
Conflict_inverted(disk, filePath, forced) == ExistsSync(disk, filePath) /\ forced

\* the overwrite check of installComponent: existsSync(filePath) && !force
Conflict(disk, filePath, forced) == ExistsSync(disk, filePath) /\ ~forced

\* [...(component.dependencies || []), ...(component.devDependencies || [])]
AllDeps(component) == component.dependencies \o OrEmpty(component.devDependencies)

\* Faulty variant: an array push instead of a Set add.
AddAll_push(set, names) == set \o names

\* allDeps.forEach(dep => installedDeps.add(dep)) on an insertion-ordered Set
RECURSIVE AddAll(_, _)
AddAll(set, names) ==
    IF names = <<>> THEN set
    ELSE AddAll(IF Head(names) \in Range(set) THEN set ELSE Append(set, Head(names)),
                Tail(names))

\* the InstallResult of installComponent's return statement
SuccessResult(component, files, deps) ==
    [component |-> component.name, success |-> TRUE, files |-> Some(files),
     dependencies |-> Some(deps), error |-> None]

\* the InstallResult pushed by installComponents' catch block
FailureResult(component, message) ==
    [component |-> component.name, success |-> FALSE, files |-> None,
     dependencies |-> None, error |-> Some(message)]

Installing == pc = "install" /\ ci <= Len(AllComponents)

CurrentComponent == AllComponents[ci]

CurrentFile == CurrentComponent.files[fi]

\* Faulty variant: the catch block records the failure and leaves the loop.
InstallFileConflict_break ==
    /\ Installing
    /\ fi <= Len(CurrentComponent.files)
    /\ LET filePath == FilePathOf(CurrentComponent, CurrentFile)
       IN /\ Conflict(fs, filePath, force)
          /\ results' = Append(results, FailureResult(CurrentComponent, FileExistsMessage(filePath)))
    /\ ci' = Len(AllComponents) + 1 /\ fi' = 1 /\ installedFiles' = <<>>
    /\ UNCHANGED <<studyVars, server, cache, optionVars, installedDeps, fs, pc, componentIds, resolverVars,
                   execVars, lastOp, calls, snapshotVars, history>>

\* installComponent, one file: the overwrite check fails; the throw is caught by
\* installComponents, which records the failure and goes on to the next component.
InstallFileConflict ==
    /\ Installing
    /\ fi <= Len(CurrentComponent.files)
    /\ LET filePath == FilePathOf(CurrentComponent, CurrentFile)
       IN /\ Conflict(fs, filePath, force)
          /\ results' = Append(results, FailureResult(CurrentComponent, FileExistsMessage(filePath)))
    /\ ci' = ci + 1 /\ fi' = 1 /\ installedFiles' = <<>>
    /\ UNCHANGED <<studyVars, server, cache, optionVars, installedDeps, fs, pc, componentIds, resolverVars,
                   execVars, lastOp, calls, snapshotVars, history>>

\* installComponent, one file under dryRun: the check passes, nothing is written,
\* the path is reported.
InstallFileDry ==
    /\ Installing
    /\ fi <= Len(CurrentComponent.files)
    /\ dryRun
    /\ LET filePath == FilePathOf(CurrentComponent, CurrentFile)
       IN /\ ~Conflict(fs, filePath, force)
          /\ installedFiles' = Append(installedFiles, filePath)
    /\ fi' = fi + 1
    /\ UNCHANGED <<studyVars, server, cache, optionVars, installedDeps, fs, pc, componentIds, resolverVars,
                   ci, results, execVars, lastOp, calls, snapshotVars, history>>

\* installComponent, one file: the check passes and writeFile is called (awaited).
InstallFileCheck ==
    /\ Installing
    /\ fi <= Len(CurrentComponent.files)
    /\ ~dryRun
    /\ ~Conflict(fs, FilePathOf(CurrentComponent, CurrentFile), force)
    /\ pc' = "write"
    /\ UNCHANGED <<studyVars, server, cache, optionVars, installedDeps, fs, componentIds, resolverVars,
                   installVars, execVars, lastOp, calls, snapshotVars, history>>

\* Faulty variant: the write creates the file exclusively and throws the
\* file-exists error when the path has appeared since the check.
InstallFileWrite_exclusive ==
    /\ pc = "write"
    /\ LET filePath == FilePathOf(CurrentComponent, CurrentFile)
       IN IF ExistsSync(fs, filePath)
          THEN /\ results' = Append(results, FailureResult(CurrentComponent,
                                                           FileExistsMessage(filePath)))
               /\ ci' = ci + 1 /\ fi' = 1 /\ installedFiles' = <<>>
               /\ fs' = fs
          ELSE /\ fs' = WriteFile(fs, filePath, ProcessFileContent(CurrentFile.content, typescript))
               /\ installedFiles' = Append(installedFiles, filePath)
               /\ fi' = fi + 1
               /\ UNCHANGED <<ci, results>>
    /\ pc' = "install"
    /\ UNCHANGED <<studyVars, server, cache, optionVars, installedDeps, componentIds, resolverVars,
                   execVars, lastOp, calls, snapshotVars, history>>

\* writeFile settles: the adapted content is on disk, the path is reported.
InstallFileWrite ==
    /\ pc = "write"
    /\ LET filePath == FilePathOf(CurrentComponent, CurrentFile)
       IN /\ fs' = WriteFile(fs, filePath, ProcessFileContent(CurrentFile.content, typescript))
          /\ installedFiles' = Append(installedFiles, filePath)
    /\ fi' = fi + 1
    /\ pc' = "install"
    /\ UNCHANGED <<studyVars, server, cache, optionVars, installedDeps, componentIds, resolverVars,
                   ci, results, execVars, lastOp, calls, snapshotVars, history>>

\* installComponent after the last file: track the dependencies, return success.
InstallComponentDone ==
    /\ Installing
    /\ fi > Len(CurrentComponent.files)
    /\ LET allDeps == AllDeps(CurrentComponent)
       IN /\ installedDeps' = AddAll(installedDeps, allDeps)
          /\ results' = Append(results, SuccessResult(CurrentComponent, installedFiles, allDeps))
    /\ ci' = ci + 1 /\ fi' = 1 /\ installedFiles' = <<>>
    /\ UNCHANGED <<studyVars, server, cache, optionVars, fs, pc, componentIds, resolverVars,
                   execVars, lastOp, calls, snapshotVars, history>>

\* installComponents: the loop is over, return results.
InstallComponentsReturn ==
    /\ pc = "install"
    /\ ci > Len(AllComponents)
    /\ pc' = "idle"
    /\ lastOp' = "installComponents"
    /\ history' = Append(history, [ids |-> componentIds, threw |-> FALSE, results |-> results,
                                   components |-> AllComponents,
                                   fsBefore |-> fsAtCall, fsAfter |-> fs,
                                   depsBefore |-> depsAtCall, depsAfter |-> installedDeps])
    /\ UNCHANGED <<studyVars, server, cache, optionVars, installedDeps, fs, componentIds, resolverVars,
                   installVars, execVars, calls, snapshotVars>>

InstallLoop ==
    \/ InstallFileConflict
    \/ InstallFileDry
    \/ InstallFileCheck
    \/ InstallFileWrite
    \/ InstallComponentDone
    \/ InstallComponentsReturn

\* ----------------------------------------------------- install study: Init
\* file contents of the descriptors under study
CardSvelteText == <<"$", "c", "o", "m", "p", "o", "n", "e", "n", "t", "s", "/", "b", ".", "t", "s", "'">>
IndexTsText == <<"a", ".", "t", "s", "\"">>
ButtonSvelteText == <<"<", "b", ">">>
OldText == <<"o", "l", "d">>

CardSvelte == File(<<"card.svelte">>, CardSvelteText)
IndexTs == File(<<"index.ts">>, IndexTsText)
ButtonSvelte == File(<<"button.svelte">>, ButtonSvelteText)
\* a file of button whose path climbs into card's directory
ButtonIntoCard == File(<<"..", "card", "card.svelte">>, ButtonSvelteText)

CardFileLists == SeqsUpTo({CardSvelte, IndexTs}, MaxFiles)
ButtonFileLists == {<<>>, <<ButtonSvelte>>, <<ButtonIntoCard>>}
CardRegDeps == {None, Some(<<"button">>), Some(<<"button", "ghost">>), Some(<<"badge">>)}

CardDeps == <<"clsx", "tailwind-merge">>
CardDevDeps == Some(<<"vitest", "clsx">>)
ButtonDeps == <<"clsx", "bits-ui">>

\* card = [regDeps, files, deps, devDeps], button = [files, deps]
InstallServer(card, button) ==
    [id \in AllIds |->
        CASE id = "card" ->
                Found(Descriptor("card", card.regDeps, card.files, card.deps, card.devDeps))
          [] id = "button" ->
                Found(Descriptor("button", Some(<<>>), button.files, button.deps, None))
          [] id = "badge" -> Malformed
          [] OTHER -> NotFound]

\* what may be on disk before the first call
InitialDisks ==
    { <<>>,
      WriteFile(<<>>, <<"ui", "card", "card.svelte">>, OldText),
      WriteFile(<<>>, <<"ui", "button", "button.svelte">>, OldText) }

InstallRequests == {<<>>, <<"card">>, <<"button">>, <<"card", "button">>}

Init ==
    /\ server \in {InstallServer([regDeps |-> d, files |-> cf, deps |-> CardDeps,
                                     devDeps |-> CardDevDeps],
                                    [files |-> bf, deps |-> ButtonDeps]) :
                      d \in CardRegDeps, cf \in CardFileLists, bf \in ButtonFileLists}
    /\ force \in BOOLEAN /\ dryRun \in BOOLEAN
    /\ typescript = FALSE
    /\ packageManager = "pnpm"
    /\ fs \in InitialDisks
    /\ InitCommon
    /\ InitNoStudy

Next ==
    \/ \E ids \in InstallRequests : InstallComponentsCall(ids)
    \/ ResolveSkip
    \/ ResolveFetch
    \/ ResolveFail
    \/ ResolveReturn
    \/ InstallFileConflict
    \/ InstallFileDry
    \/ InstallFileCheck
    \/ InstallFileWrite
    \/ InstallComponentDone
    \/ InstallComponentsReturn

Spec == Init /\ [][Next]_vars

\* ------------------------------------------------------ installDependencies
\* Faulty variant: every package manager gets the npm subcommand.
InstallCmd_allInstall(pm, deps) == <<"install">> \o deps

\* the installCmd table of installDependencies
InstallCmd(pm, deps) ==
    CASE pm = "npm" -> <<"install">> \o deps
      [] pm = "yarn" -> <<"add">> \o deps
      [] pm = "pnpm" -> <<"add">> \o deps
      [] pm = "bun" -> <<"add">> \o deps

\* installDependencies with an empty set: returns at once.
InstallDependenciesNoop ==
    /\ pc = "idle"
    /\ depCalls < MaxDepCalls
    /\ installedDeps = <<>>
    /\ depCalls' = depCalls + 1
    /\ depThrew' = FALSE
    /\ lastOp' = "installDependencies"
    /\ fsAtCall' = fs /\ depsAtCall' = installedDeps /\ execAtCall' = execLog
    /\ UNCHANGED <<studyVars, server, cache, optionVars, installedDeps, fs, pc, componentIds, resolverVars,
                   installVars, execLog, calls, history>>

\* Faulty variant: the set is emptied once its names are handed to the executor.
InstallDependenciesExec_clears ==
    /\ pc = "idle"
    /\ depCalls < MaxDepCalls
    /\ installedDeps # <<>>
    /\ depCalls' = depCalls + 1
    /\ execLog' = Append(execLog, [file |-> packageManager,
                                    args |-> InstallCmd(packageManager, installedDeps)])
    /\ installedDeps' = <<>>
    /\ fsAtCall' = fs /\ depsAtCall' = installedDeps /\ execAtCall' = execLog
    /\ pc' = "exec"
    /\ UNCHANGED <<studyVars, server, cache, optionVars, fs, componentIds, resolverVars,
                   installVars, depThrew, lastOp, calls, history>>

\* installDependencies with names to install: execa is started and awaited.
InstallDependenciesExec ==
    /\ pc = "idle"
    /\ depCalls < MaxDepCalls
    /\ installedDeps # <<>>
    /\ depCalls' = depCalls + 1
    /\ execLog' = Append(execLog, [file |-> packageManager,
                                    args |-> InstallCmd(packageManager, installedDeps)])
    /\ fsAtCall' = fs /\ depsAtCall' = installedDeps /\ execAtCall' = execLog
    /\ pc' = "exec"
    /\ UNCHANGED <<studyVars, server, cache, optionVars, installedDeps, fs, componentIds, resolverVars,
                   installVars, depThrew, lastOp, calls, history>>

\* the package manager exits: zero resolves the call, nonzero rejects it.
ExecaSettles(exitZero) ==
    /\ pc = "exec"
    /\ pc' = "idle"
    /\ depThrew' = ~exitZero
    /\ lastOp' = "installDependencies"
    /\ UNCHANGED <<studyVars, server, cache, optionVars, installedDeps, fs, componentIds, resolverVars,
                   installVars, execLog, depCalls, calls, snapshotVars, history>>

\* ------------------------------------------------- dependency study: Init
DepsCardDeps == {<<>>, <<"clsx">>, <<"clsx", "tailwind-merge">>}
DepsCardDevDeps == {None, Some(<<"clsx">>)}
DepsButtonDeps == {<<>>, <<"clsx", "bits-ui">>}
PackageManagers == {"npm", "yarn", "pnpm", "bun"}
DepsRequests == {<<"button">>, <<"card", "button">>, <<"ghost">>}

InitDeps ==
    /\ server \in {InstallServer([regDeps |-> Some(<<"button">>), files |-> <<CardSvelte>>,
                                     deps |-> cd, devDeps |-> cdd],
                                    [files |-> <<>>, deps |-> bd]) :
                      cd \in DepsCardDeps, cdd \in DepsCardDevDeps, bd \in DepsButtonDeps}
    /\ force = FALSE /\ dryRun \in BOOLEAN
    /\ typescript = TRUE
    /\ packageManager \in PackageManagers
    /\ fs \in {<<>>, WriteFile(<<>>, <<"ui", "card", "card.svelte">>, OldText)}
    /\ InitCommon
    /\ InitNoStudy

NextDeps ==
    \/ \E ids \in DepsRequests : InstallComponentsCall(ids)
    \/ ResolveSkip
    \/ ResolveFetch
    \/ ResolveFail
    \/ ResolveReturn
    \/ InstallFileConflict
    \/ InstallFileDry
    \/ InstallFileCheck
    \/ InstallFileWrite
    \/ InstallComponentDone
    \/ InstallComponentsReturn
    \/ InstallDependenciesNoop
    \/ InstallDependenciesExec
    \/ \E exitZero \in BOOLEAN : ExecaSettles(exitZero)

SpecDeps == InitDeps /\ [][NextDeps]_vars

\* ------------------------------------------------- content adapter study
\* Input texts are concatenations of fragments: the tokens the adapter looks
\* for, pieces of them, and text it must leave alone.
Fragments ==
    { <<"$", "c", "o", "m", "p", "o", "n", "e", "n", "t", "s", "/">>,
      <<"$", "l", "i", "b", "/">>,
      <<".", "t", "s", "'">>,
      <<".", "t", "s", "\"">>,
      <<"$">>,
      <<"c", "o", "m", "p", "o", "n", "e", "n", "t", "s", "/">>,
      <<".", "t">>,
      <<"s", "'">>,
      <<"x">>,
      <<".", "j", "s", "'">> }

AdapterInputs == {Flatten(parts) : parts \in SeqsUpTo(Fragments, MaxFrags)}

InitAdapt ==
    /\ server = [id \in AllIds |-> NotFound]
    /\ force = FALSE /\ dryRun = FALSE
    /\ typescript \in BOOLEAN
    /\ packageManager = "npm"
    /\ fs = <<>>
    /\ InitCommon
    /\ text \in AdapterInputs
    /\ adapted = <<>>
    /\ InitNoDetect /\ InitNoCli /\ InitNoLifetime /\ InitNoRace /\ InitNoRegistry

\* processFileContent applied to the raw content, then to its own last output
Adapt ==
    /\ Len(adapted) < MaxApply
    /\ adapted' = Append(adapted, ProcessFileContent(IF adapted = <<>> THEN text
                                                     ELSE adapted[Len(adapted)], typescript))
    /\ UNCHANGED <<outsideAdapt, text>>

NextAdapt == Adapt

SpecAdapt == InitAdapt /\ [][NextAdapt]_vars

\* ------------------------------------------------- project detector study
\* A directory is the sequence of its segments below the filesystem root.
Root == <<>>

\* path.dirname
Dirname(d) == IF d = Root THEN Root ELSE SubSeq(d, 1, Len(d) - 1)

SvelteConfigNames == <<"svelte.config.js", "svelte.config.ts">>
TsConfigNames == <<"tsconfig.json", "tsconfig.node.json">>
TailwindConfigNames == <<"tailwind.config.js", "tailwind.config.ts", "tailwind.config.cjs">>

NamesOf(p) ==
    CASE p = "findSvelte" -> SvelteConfigNames
      [] p = "findTs" -> TsConfigNames
      [] p = "findTailwind" -> TailwindConfigNames

FindPcs == {"findSvelte", "findTs", "findTailwind"}

\* findUp's inner loop over names at one directory: the first name that exists
FirstExisting(names, d) ==
    LET hits == {i \in 1..Len(names) : Append(d, names[i]) \in projectTree}
    IN IF hits = {} THEN None
       ELSE Some(Append(d, names[CHOOSE i \in hits : \A j \in hits : i <= j]))

\* the caller's continuation of a findUp call that returns `result`
FindUpReturns(result) ==
    /\ svelteConfig' = IF dpc = "findSvelte" THEN result ELSE svelteConfig
    /\ tsconfigPath' = IF dpc = "findTs" THEN result ELSE tsconfigPath
    /\ tailwindConfig' = IF dpc = "findTailwind" THEN result ELSE tailwindConfig
    /\ dpc' = CASE dpc = "findSvelte" -> "svelteChecked"
                [] dpc = "findTs" -> "tsChecked"
                [] dpc = "findTailwind" -> "tailwindChecked"

\* analyze starts and calls findSvelteConfig: findUp's dir = resolve(cwd)
AnalyzeCall ==
    /\ dpc = "idle"
    /\ dpc' = "findSvelte"
    /\ dir' = cwd
    /\ examined' = <<>>
    /\ UNCHANGED <<outsideDetect, projectVars, foundVars, projectInfo>>

\* one pass of findUp's while loop in which a name exists: return its path
FindUpHit ==
    /\ dpc \in FindPcs
    /\ dir # Root
    /\ FirstExisting(NamesOf(dpc), dir) # None
    /\ examined' = Append(examined, dir)
    /\ FindUpReturns(FirstExisting(NamesOf(dpc), dir))
    /\ UNCHANGED <<outsideDetect, projectVars, dir, projectInfo>>

\* one pass of findUp's while loop in which no name exists: go to the parent
FindUpMiss ==
    /\ dpc \in FindPcs
    /\ dir # Root
    /\ FirstExisting(NamesOf(dpc), dir) = None
    /\ examined' = Append(examined, dir)
    /\ dir' = Dirname(dir)
    /\ UNCHANGED <<outsideDetect, projectVars, dpc, foundVars, projectInfo>>

\* findUp's loop condition fails, dir is the root: return null
FindUpNull ==
    /\ dpc \in FindPcs
    /\ dir = Root
    /\ FindUpReturns(None)
    /\ UNCHANGED <<outsideDetect, projectVars, findUpVars, projectInfo>>

FindUpLoop == FindUpHit \/ FindUpMiss \/ FindUpNull

InvalidProject(message) == [isValid |-> FALSE, config |-> None, error |-> Some(message)]

ValidProject(config) == [isValid |-> TRUE, config |-> Some(config), error |-> None]

NoSvelteConfigMessage == "No svelte.config.js found"

\* analyze: no svelte config was found
AnalyzeNoConfig ==
    /\ dpc = "svelteChecked"
    /\ svelteConfig = None
    /\ projectInfo' = Some(InvalidProject(NoSvelteConfigMessage))
    /\ dpc' = "done"
    /\ UNCHANGED <<outsideDetect, projectVars, findUpVars, foundVars>>

\* ProjectAnalyzer.detectFramework
DetectFramework ==
    IF cwd \o <<"src", "app.html">> \in projectTree \/ cwd \o <<"src", "routes">> \in projectTree
    THEN "sveltekit" ELSE "svelte"

\* analyze: detectFramework is done, hasTypeScript calls findUp
HasTypeScriptCall ==
    /\ dpc = "svelteChecked"
    /\ svelteConfig # None
    /\ dpc' = "findTs"
    /\ dir' = cwd
    /\ examined' = <<>>
    /\ UNCHANGED <<outsideDetect, projectVars, foundVars, projectInfo>>

\* analyze: detectStyling calls findUp
DetectStylingCall ==
    /\ dpc = "tsChecked"
    /\ dpc' = "findTailwind"
    /\ dir' = cwd
    /\ examined' = <<>>
    /\ UNCHANGED <<outsideDetect, projectVars, foundVars, projectInfo>>

\* detectStyling reads and parses package.json
ReadsPackageJson == tailwindConfig = None /\ Append(cwd, "package.json") \in projectTree

JsonParseMessage == "Unexpected token in JSON"

\* ProjectAnalyzer.detectStyling, after its findUp call
DetectStyling ==
    IF tailwindConfig # None THEN "tailwind"
    ELSE IF ReadsPackageJson /\ packageJson = "sass" THEN "scss"
    ELSE IF cwd \o <<"src", "app.css">> \in projectTree \/ cwd \o <<"src", "global.css">> \in projectTree
         THEN "css" ELSE "none"

\* Faulty variant: yarn.lock is looked for before the other lockfiles.
DetectPackageManager_yarnFirst ==
    IF Append(cwd, "yarn.lock") \in projectTree THEN "yarn"
    ELSE IF Append(cwd, "bun.lockb") \in projectTree THEN "bun"
    ELSE IF Append(cwd, "pnpm-lock.yaml") \in projectTree THEN "pnpm"
    ELSE "npm"

\* ProjectAnalyzer.detectPackageManager
DetectPackageManager ==
    IF Append(cwd, "bun.lockb") \in projectTree THEN "bun"
    ELSE IF Append(cwd, "pnpm-lock.yaml") \in projectTree THEN "pnpm"
    ELSE IF Append(cwd, "yarn.lock") \in projectTree THEN "yarn"
    ELSE "npm"

\* ProjectAnalyzer.determinePaths, relative to cwd ("." is the empty path)
DeterminePaths ==
    LET srcPath == IF Append(cwd, "src") \in projectTree THEN <<"src">> ELSE <<>>
        libPath == IF cwd \o srcPath \o <<"lib">> \in projectTree THEN Append(srcPath, "lib") ELSE srcPath
    IN [src |-> srcPath, lib |-> libPath, components |-> Append(libPath, "components")]

\* analyze: JSON.parse throws in detectStyling, the catch block returns the error
AnalyzeThrows ==
    /\ dpc = "tailwindChecked"
    /\ ReadsPackageJson /\ packageJson = "broken"
    /\ projectInfo' = Some(InvalidProject(JsonParseMessage))
    /\ dpc' = "done"
    /\ UNCHANGED <<outsideDetect, projectVars, findUpVars, foundVars>>

\* analyze: the remaining detections, return the valid project
AnalyzeReturn ==
    /\ dpc = "tailwindChecked"
    /\ ~(ReadsPackageJson /\ packageJson = "broken")
    /\ projectInfo' = Some(ValidProject([framework |-> DetectFramework,
                                         typescript |-> tsconfigPath # None,
                                         styling |-> DetectStyling,
                                         packageManager |-> DetectPackageManager,
                                         paths |-> DeterminePaths]))
    /\ dpc' = "done"
    /\ UNCHANGED <<outsideDetect, projectVars, findUpVars, foundVars>>

Analyze ==
    \/ AnalyzeCall
    \/ FindUpLoop
    \/ AnalyzeNoConfig
    \/ HasTypeScriptCall
    \/ DetectStylingCall
    \/ AnalyzeThrows
    \/ AnalyzeReturn

\* the directory chain the projects of the study live in
ChainNames == <<"home", "app", "web">>
Chain(k) == [i \in 1..k |-> ChainNames[((i - 1) % Len(ChainNames)) + 1]]
Levels == {Chain(k) : k \in 0..MaxDepth}

LockNames == {"bun.lockb", "pnpm-lock.yaml", "yarn.lock"}

\* what else the project directory c holds: entries and the kind of package.json
ProjectScenarios(c) ==
    { [entries |-> {}, packageJson |-> "absent"],
      [entries |-> {c \o <<"src">>, c \o <<"src", "routes">>, c \o <<"src", "lib">>,
                    c \o <<"tsconfig.json">>, c \o <<"package.json">>},
       packageJson |-> "plain"],
      [entries |-> {c \o <<"src">>, c \o <<"src", "app.css">>, c \o <<"package.json">>,
                    Dirname(c) \o <<"tsconfig.node.json">>},
       packageJson |-> "sass"],
      [entries |-> {Dirname(c) \o <<"tailwind.config.ts">>, c \o <<"package.json">>},
       packageJson |-> "broken"],
      [entries |-> {c \o <<"package.json">>}, packageJson |-> "broken"] }

InitProject(dirs, configs, locks) ==
    /\ cwd \in dirs
    /\ \E cs \in configs, ls \in locks :
         \E sc \in ProjectScenarios(cwd) :
            /\ projectTree = cs \cup {Append(cwd, l) : l \in ls} \cup sc.entries
            /\ packageJson = sc.packageJson
    /\ dpc = "idle" /\ dir = <<>> /\ examined = <<>>
    /\ svelteConfig = None /\ tsconfigPath = None /\ tailwindConfig = None
    /\ projectInfo = None

InitDetect ==
    /\ server = [id \in AllIds |-> NotFound]
    /\ force = FALSE /\ dryRun = FALSE
    /\ typescript = FALSE
    /\ packageManager = "npm"
    /\ fs = <<>>
    /\ InitCommon
    /\ InitNoAdapt /\ InitNoCli /\ InitNoLifetime /\ InitNoRace /\ InitNoRegistry
    /\ InitProject(Levels,
                   SubsetsUpTo({Append(d, n) : d \in Levels, n \in Range(SvelteConfigNames)},
                               MaxConfigs),
                   SUBSET LockNames)

NextDetect == Analyze

SpecDetect == InitDetect /\ [][NextDetect]_vars

\* ------------------------------------------------ the install command
\* what the command's action leaves alone apart from its own position
installerVars == <<server, cache, force, dryRun, fs, pc, componentIds, toResolve, resolved,
                   ci, fi, installedFiles, results, execLog, depThrew, lastOp, calls,
                   depCalls, fsAtCall, depsAtCall, execAtCall, history>>

AnalyzeSettled == dpc = "done" /\ projectInfo # None

\* the result of the installComponents call the command awaited
LastCall == history[Len(history)]

InstallSettled == calls = 1 /\ pc = "idle" /\ lastOp = "installComponents" /\ history # <<>>

DepsSettled == depCalls = 1 /\ pc = "idle" /\ lastOp = "installDependencies"

\* !projectInfo.isValid || !projectInfo.config: log and process.exit(1)
CliInvalidProject ==
    /\ cliPc = "analyze"
    /\ AnalyzeSettled
    /\ ~projectInfo[1].isValid \/ projectInfo[1].config = None
    /\ cliPc' = "exit1"
    /\ UNCHANGED <<coreVars, outsideCli, cliComponents, shouldContinue>>

\* the project is valid: go on to the selection prompt or to the confirmation
CliValidProject ==
    /\ cliPc = "analyze"
    /\ AnalyzeSettled
    /\ projectInfo[1].isValid /\ projectInfo[1].config # None
    /\ cliPc' = IF cliComponents = <<>> THEN "select" ELSE "confirm"
    /\ UNCHANGED <<coreVars, outsideCli, cliComponents, shouldContinue>>

\* no components given: the registry lists its components, the user selects one
CliSelect(selected) ==
    /\ cliPc = "select"
    /\ server[selected].ok /\ server[selected].valid
    /\ cliComponents' = <<selected>>
    /\ cliPc' = "confirm"
    /\ UNCHANGED <<coreVars, outsideCli, shouldContinue>>

\* getAvailableComponents rejects: the catch block fails the run
CliListFails ==
    /\ cliPc = "select"
    /\ cliPc' = "exit1"
    /\ UNCHANGED <<coreVars, outsideCli, cliComponents, shouldContinue>>

\* dry run: no confirmation is asked for
CliNoConfirm ==
    /\ cliPc = "confirm"
    /\ dryRun
    /\ cliPc' = "construct"
    /\ UNCHANGED <<coreVars, outsideCli, cliComponents, shouldContinue>>

\* the confirmation prompt is answered; a refusal returns from the action
CliConfirm(answer) ==
    /\ cliPc = "confirm"
    /\ ~dryRun
    /\ shouldContinue' = Some(answer)
    /\ cliPc' = IF answer THEN "construct" ELSE "cancelled"
    /\ UNCHANGED <<coreVars, outsideCli, cliComponents>>

\* new ComponentInstaller({projectInfo: {config}, registry, force, dryRun})
CliNewInstaller ==
    /\ cliPc = "construct"
    /\ typescript' = projectInfo[1].config[1].typescript
    /\ packageManager' = projectInfo[1].config[1].packageManager
    /\ installedDeps' = <<>>
    /\ cliPc' = "install"
    /\ UNCHANGED <<installerVars, outsideCli, cliComponents, shouldContinue>>

\* installer.installComponents(components, installPath) is called and awaited
CliInstallComponents ==
    /\ cliPc = "install"
    /\ calls = 0
    /\ InstallComponentsCall(cliComponents)

\* installComponents rejected: the catch block fails the run
CliInstallThrew ==
    /\ cliPc = "install"
    /\ InstallSettled
    /\ LastCall.threw
    /\ cliPc' = "exit1"
    /\ UNCHANGED <<coreVars, outsideCli, cliComponents, shouldContinue>>

\* Faulty variant: the dry-run option is not looked at.
NeedsDependencies_dry(rs) ==
    \E i \in 1..Len(rs) : Len(OrEmpty(rs[i].dependencies)) > 0

\* !options.dryRun && results.some((r) => r.dependencies?.length)
NeedsDependencies(rs) ==
    ~dryRun /\ \E i \in 1..Len(rs) : Len(OrEmpty(rs[i].dependencies)) > 0

\* the results are displayed; the dependencies are installed if there are any
CliShowResults ==
    /\ cliPc = "install"
    /\ InstallSettled
    /\ ~LastCall.threw
    /\ cliPc' = IF NeedsDependencies(LastCall.results) THEN "deps" ELSE "complete"
    /\ UNCHANGED <<coreVars, outsideCli, cliComponents, shouldContinue>>

\* installer.installDependencies() is called and awaited
CliInstallDependencies ==
    /\ cliPc = "deps"
    /\ depCalls = 0
    /\ InstallDependenciesExec

\* installDependencies resolved: the run is complete
CliDepsInstalled ==
    /\ cliPc = "deps"
    /\ DepsSettled
    /\ ~depThrew
    /\ cliPc' = "complete"
    /\ UNCHANGED <<coreVars, outsideCli, cliComponents, shouldContinue>>

\* installDependencies rejected: the catch block fails the run
CliDepsFailed ==
    /\ cliPc = "deps"
    /\ DepsSettled
    /\ depThrew
    /\ cliPc' = "exit1"
    /\ UNCHANGED <<coreVars, outsideCli, cliComponents, shouldContinue>>

CliProject == {Chain(1)}
CliComponentArgs == {<<>>, <<"button">>, <<"card">>, <<"ghost">>}

InitCli ==
    /\ server \in {InstallServer([regDeps |-> Some(<<"button">>), files |-> <<CardSvelte>>,
                                     deps |-> CardDeps, devDeps |-> None],
                                    [files |-> <<ButtonSvelte>>, deps |-> bd]) :
                      bd \in {<<>>, ButtonDeps}}
    /\ force = FALSE /\ dryRun \in BOOLEAN
    /\ typescript = FALSE
    /\ packageManager = "npm"
    /\ fs \in {<<>>, WriteFile(<<>>, <<"ui", "card", "card.svelte">>, OldText)}
    /\ InitCommon
    /\ InitNoAdapt /\ InitNoLifetime /\ InitNoRace /\ InitNoRegistry
    /\ InitProject(CliProject,
                   {{}, {Append(Chain(1), SvelteConfigNames[1])}},
                   SUBSET LockNames)
    /\ cliPc = "analyze"
    /\ cliComponents \in CliComponentArgs
    /\ shouldContinue = None

NextCli ==
    \/ cliPc = "analyze" /\ Analyze
    \/ CliInvalidProject
    \/ CliValidProject
    \/ \E selected \in AllIds : CliSelect(selected)
    \/ CliListFails
    \/ CliNoConfirm
    \/ \E answer \in BOOLEAN : CliConfirm(answer)
    \/ CliNewInstaller
    \/ CliInstallComponents
    \/ cliPc = "install" /\ (ResolveLoop \/ InstallLoop)
    \/ CliInstallThrew
    \/ CliShowResults
    \/ CliInstallDependencies
    \/ cliPc = "deps" /\ \E exitZero \in BOOLEAN : ExecaSettles(exitZero)
    \/ CliDepsInstalled
    \/ CliDepsFailed

SpecCli == InitCli /\ [][NextCli]_vars

\* ------------------------------------------------- installer lifetime study
\* new ComponentInstaller(options) with the same options and registry: the
\* instance starts with an empty installedDeps and has made no call yet
NewInstaller ==
    /\ pc = "idle"
    /\ instances < MaxInstallers
    /\ instances' = instances + 1
    /\ installedDeps' = <<>>
    /\ calls' = 0 /\ depCalls' = 0
    /\ depThrew' = FALSE
    /\ lastOp' = "none"
    /\ history' = <<>>
    /\ UNCHANGED <<outsideLifetime, server, cache, optionVars, fs, pc, componentIds,
                   resolverVars, installVars, execLog, snapshotVars>>

LifetimeRequests == {<<"button">>, <<"card", "button">>, <<"ghost">>}

InitLifetime ==
    /\ server = InstallServer([regDeps |-> Some(<<"button">>), files |-> <<CardSvelte>>,
                               deps |-> <<"clsx", "tailwind-merge">>, devDeps |-> Some(<<"clsx">>)],
                              [files |-> <<>>, deps |-> <<"clsx", "bits-ui">>])
    /\ force = FALSE /\ dryRun \in BOOLEAN
    /\ typescript = TRUE
    /\ packageManager = "yarn"
    /\ fs \in {<<>>, WriteFile(<<>>, <<"ui", "card", "card.svelte">>, OldText)}
    /\ InitCommon
    /\ InitNoAdapt /\ InitNoDetect /\ InitNoCli /\ InitNoRace /\ InitNoRegistry
    /\ instances = 1

NextLifetime ==
    \/ \E ids \in LifetimeRequests : InstallComponentsCall(ids)
    \/ ResolveLoop
    \/ InstallLoop
    \/ InstallDependenciesNoop
    \/ InstallDependenciesExec
    \/ \E exitZero \in BOOLEAN : ExecaSettles(exitZero)
    \/ NewInstaller

SpecLifetime == InitLifetime /\ [][NextLifetime]_vars

\* ------------------------------------------------- check-then-write study
ExternalText == <<"e", "x", "t">>

\* the paths the components of the study are installed to
RacePaths ==
    { <<"ui", "card", "card.svelte">>, <<"ui", "card", "index.ts">>,
      <<"ui", "button", "button.svelte">> }

\* the installer is between existsSync(filePath) and the end of writeFile(filePath)
InWindow(path) == pc = "write" /\ path = FilePathOf(CurrentComponent, CurrentFile)

\* another process creates a file that does not exist yet
ExternalCreate(path) ==
    /\ ~ExistsSync(fs, path)
    /\ fs' = WriteFile(fs, path, ExternalText)
    /\ external' = external \cup {path}
    /\ raced' = IF InWindow(path) THEN raced \cup {path} ELSE raced
    /\ UNCHANGED <<outsideRace, server, cache, optionVars, installedDeps, pc, componentIds,
                   resolverVars, installVars, execVars, lastOp, calls, snapshotVars, history>>

RaceRequests == {<<"card">>, <<"card", "button">>, <<"ghost">>}

InitRace ==
    /\ server = InstallServer([regDeps |-> Some(<<"button">>), files |-> <<CardSvelte, IndexTs>>,
                               deps |-> CardDeps, devDeps |-> None],
                              [files |-> <<ButtonSvelte>>, deps |-> ButtonDeps])
    /\ force = FALSE /\ dryRun \in BOOLEAN
    /\ typescript = FALSE
    /\ packageManager = "npm"
    /\ fs = <<>>
    /\ InitCommon
    /\ InitNoAdapt /\ InitNoDetect /\ InitNoCli /\ InitNoLifetime /\ InitNoRegistry
    /\ external = {} /\ raced = {}

NextRace ==
    \/ \E ids \in RaceRequests : calls = 0 /\ InstallComponentsCall(ids)
    \/ ResolveLoop
    \/ InstallLoop
    \/ \E path \in RacePaths : ExternalCreate(path)

SpecRace == InitRace /\ [][NextRace]_vars

\* ------------------------------------------------- registry client study
\* getComponent up to its first await: a cache hit returns the cached
\* descriptor, a miss issues the fetch.  st = [calls, events].
Started_noCache(st, id) ==
    [calls |-> Append(st.calls, [id |-> id, state |-> "fetching", value |-> None]),
     events |-> Append(st.events, [op |-> "fetch", call |-> Len(st.calls) + 1])]

Started(st, id) ==
    IF CacheHit(id)
    THEN [calls |-> Append(st.calls, [id |-> id, state |-> "done", value |-> Some(cache[id])]),
          events |-> Append(st.events, [op |-> "hit", call |-> Len(st.calls) + 1])]
    ELSE [calls |-> Append(st.calls, [id |-> id, state |-> "fetching", value |-> None]),
          events |-> Append(st.events, [op |-> "fetch", call |-> Len(st.calls) + 1])]

\* componentIds.map((id) => this.getComponent(id)): the calls start one after
\* the other, none of them gets past its first await meanwhile
RECURSIVE StartAll(_, _)
StartAll(st, ids) ==
    IF ids = <<>> THEN st ELSE StartAll(Started(st, Head(ids)), Tail(ids))

\* the getComponent calls that a getComponents call made
Members(b) == [k \in 1..Len(b.ids) |-> b.first + k - 1]

\* Faulty variant: Promise.any in place of Promise.all.
SettleBatch_any(b, cs) ==
    LET ms == Members(b) IN
    IF b.state # "pending" THEN b
    ELSE IF \E k \in 1..Len(ms) : cs[ms[k]].state = "done"
         THEN [b EXCEPT !.state = "fulfilled",
                        !.value = [k \in 1..Len(ms) |-> cs[ms[k]].value]]
    ELSE b

\* Promise.all over the members: rejected as soon as one member is rejected,
\* fulfilled with the values in member order once every member is fulfilled
SettleBatch(b, cs) ==
    LET ms == Members(b) IN
    IF b.state # "pending" THEN b
    ELSE IF \E k \in 1..Len(ms) : cs[ms[k]].state = "failed"
         THEN [b EXCEPT !.state = "rejected"]
    ELSE IF \A k \in 1..Len(ms) : cs[ms[k]].state = "done"
         THEN [b EXCEPT !.state = "fulfilled",
                        !.value = [k \in 1..Len(ms) |-> cs[ms[k]].value[1]]]
    ELSE b

\* registry.getComponent(id) is called
GetComponentCall(id) ==
    /\ Len(rcalls) < MaxRegistryCalls
    /\ LET st == Started([calls |-> rcalls, events |-> events], id)
       IN rcalls' = st.calls /\ events' = st.events
    /\ UNCHANGED <<coreVars, outsideRegistry, batch>>

\* registry.getComponents(ids) is called
GetComponentsCall(ids) ==
    /\ batch = None
    /\ Len(rcalls) + Len(ids) <= MaxRegistryCalls
    /\ LET st == StartAll([calls |-> rcalls, events |-> events], ids)
       IN /\ rcalls' = st.calls
          /\ events' = st.events
          /\ batch' = Some(SettleBatch([ids |-> ids, first |-> Len(rcalls) + 1,
                                        state |-> "pending", value |-> <<>>], st.calls))
    /\ UNCHANGED <<coreVars, outsideRegistry>>

\* the fetch of call i settles and the call runs to its end: a response that is
\* not ok or does not parse throws, a descriptor is cached and returned
FetchSettles(i) ==
    /\ i \in 1..Len(rcalls)
    /\ rcalls[i].state = "fetching"
    /\ LET id == rcalls[i].id
           ok == FetchSucceeds(id)
           cs == [rcalls EXCEPT ![i] = IF ok
                                      THEN [id |-> id, state |-> "done",
                                            value |-> Some(server[id].data)]
                                      ELSE [id |-> id, state |-> "failed", value |-> None]]
       IN /\ rcalls' = cs
          /\ cache' = IF ok THEN CacheSet(cache, id, server[id].data) ELSE cache
          /\ events' = Append(events, [op |-> IF ok THEN "ok" ELSE "fail", call |-> i])
          /\ batch' = IF batch = None THEN None ELSE Some(SettleBatch(batch[1], cs))
    /\ UNCHANGED <<outsideRegistry, server, optionVars, installedDeps, fs, pc, componentIds,
                   resolverVars, installVars, execVars, lastOp, calls, snapshotVars, history>>

InitRegistry ==
    /\ server = InstallServer([regDeps |-> None, files |-> <<CardSvelte>>,
                               deps |-> CardDeps, devDeps |-> None],
                              [files |-> <<ButtonSvelte>>, deps |-> ButtonDeps])
    /\ force = FALSE /\ dryRun = FALSE
    /\ typescript = FALSE
    /\ packageManager = "npm"
    /\ fs = <<>>
    /\ InitCommon
    /\ InitNoAdapt /\ InitNoDetect /\ InitNoCli /\ InitNoLifetime /\ InitNoRace
    /\ rcalls = <<>> /\ events = <<>> /\ batch = None

NextRegistry ==
    \/ \E id \in AllIds : GetComponentCall(id)
    \/ \E ids \in SeqsUpTo(AllIds, MaxBatch) : GetComponentsCall(ids)
    \/ \E i \in 1..MaxRegistryCalls : FetchSettles(i)

SpecRegistry == InitRegistry /\ [][NextRegistry]_vars

\* ------------------------------------------------- graph notions for claims
\* registry-dependency edges of an identifier the server knows
EdgesOf(id) ==
    IF server[id].ok /\ server[id].valid
    THEN Range(OrEmpty(server[id].data.registryDependencies))
    ELSE {}

RECURSIVE Closure(_, _)
Closure(S, n) ==
    IF n = 0 THEN S ELSE Closure(S \cup UNION {EdgesOf(x) : x \in S}, n - 1)

\* identifiers reachable from S along registryDependencies edges, S included
Reachable(S) == Closure(S, Cardinality(AllIds))

\* x lies on a cycle: it is reachable from one of its own successors
OnCycle(x) == x \in Reachable(EdgesOf(x))

Acyclic == \A x \in AllIds : ~OnCycle(x)

ResolvedIds == [i \in 1..Len(AllComponents) |-> AllComponents[i].id]

ResolveReturned == pc = "install" /\ ci = 1 /\ fi = 1 /\ results = <<>>

\* ------------------------------------------------------------------ claims
\* C1: for an acyclic registry-dependency graph and any requested sequence,
\* the resolver's output contains no identifier twice, contains every requested
\* identifier, and places every requested identifier before every identifier
\* that is in the output only because a dependency edge leads to it.
C1_RequestedFirstOnce ==
    (ResolveReturned /\ Acyclic) =>
        /\ NoDup(ResolvedIds)
        /\ Range(componentIds) \subseteq Range(ResolvedIds)
        /\ \A i, j \in 1..Len(ResolvedIds) :
              (ResolvedIds[i] \in Range(componentIds) /\ ResolvedIds[j] \notin Range(componentIds))
                  => i < j

\* an acyclic run with two requested identifiers and a dependency-only identifier in the output
C1_Witness ==
    /\ ResolveReturned /\ Acyclic
    /\ Len(componentIds) = 2 /\ NoDup(componentIds)
    /\ Len(ResolvedIds) = 3
    /\ \E i \in 1..Len(ResolvedIds) : ResolvedIds[i] \notin Range(componentIds)

\* C2: when the resolver returns, the identifiers it returns are exactly those
\* reachable from the requested ones along registryDependencies edges, so every
\* registry dependency of a returned component is returned too.
C2_ExactClosure ==
    ResolveReturned =>
        /\ Range(ResolvedIds) = Reachable(Range(componentIds))
        /\ \A i \in 1..Len(AllComponents) :
              Range(OrEmpty(AllComponents[i].registryDependencies)) \subseteq Range(ResolvedIds)

\* a diamond: two returned components share a dependency that was not requested
C2_Witness ==
    /\ ResolveReturned
    /\ componentIds = <<"card">>
    /\ Len(ResolvedIds) = 3
    /\ "badge" \in EdgesOf("card") /\ "badge" \in EdgesOf("button")
    /\ "button" \in EdgesOf("card")

\* the graph is the two-node cycle x <-> y
TwoCycle(x, y) ==
    /\ x # y
    /\ EdgesOf(x) = {y}
    /\ EdgesOf(y) = {x}

\* C3: every resolve call terminates, whatever cycles the graph has (it either
\* returns or rejects), and requesting a member of a two-node cycle returns
\* exactly the two members, once each.
C3_CyclesTerminate ==
    /\ (pc = "resolve") ~> (pc # "resolve")
    /\ [](\A x, y \in GraphIds :
            (ResolveReturned /\ TwoCycle(x, y) /\ componentIds # <<>>
                /\ Range(componentIds) \subseteq {x, y})
            => (Range(ResolvedIds) = {x, y} /\ Len(ResolvedIds) = 2))

\* a two-node cycle was resolved
C3_Witness ==
    /\ ResolveReturned
    /\ TwoCycle("card", "button")
    /\ componentIds = <<"card">>
    /\ ResolvedIds = <<"card", "button">>

\* -------------------------------------------------- notions for C4 .. C9
\* some identifier of the closure of the request cannot be fetched
Unfetchable(ids) == \E x \in Reachable(Range(ids)) : ~FetchSucceeds(x)

CallRunning == pc \in {"resolve", "install", "write"}

Runs == 1..Len(history)

\* target paths of a component, in file order
PathsOf(component) ==
    [k \in 1..Len(component.files) |-> FilePathOf(component, component.files[k])]

\* C4: a request whose closure holds an identifier that cannot be fetched makes
\* installComponents reject with no results, and from the call to the rejection
\* the disk and the installer's dependency set stay as they were at the call,
\* although earlier identifiers of the closure were already resolved.
C4_ResolutionFailureIsNoOp ==
    /\ (CallRunning /\ Unfetchable(componentIds)) =>
          /\ pc = "resolve"
          /\ fs = fsAtCall
          /\ installedDeps = depsAtCall
          /\ results = <<>>
    /\ \A r \in Runs :
          Unfetchable(history[r].ids) =>
              /\ history[r].threw
              /\ history[r].results = <<>>
              /\ history[r].fsAfter = history[r].fsBefore
              /\ history[r].depsAfter = history[r].depsBefore

\* a call rejected after two components had been resolved
C4_Witness ==
    /\ pc = "idle" /\ history # <<>>
    /\ history[Len(history)].threw
    /\ history[Len(history)].ids = <<"card">>
    /\ MapKeys(resolved) = {"card", "button"}
    /\ fs = fsAtCall

\* C5: a call whose resolution succeeds returns one result per resolved
\* component, in resolution order; a component that fails has success = FALSE
\* and an error message, the components after it still get their result, and
\* the call rejects only when the closure cannot be resolved.
C5_OneResultPerComponent ==
    \A r \in Runs :
        LET h == history[r] IN
        /\ h.threw => Unfetchable(h.ids)
        /\ ~h.threw =>
              /\ Len(h.results) = Len(h.components)
              /\ \A i \in 1..Len(h.results) :
                    /\ h.results[i].component = h.components[i].name
                    /\ h.results[i].success => h.results[i].error = None
                    /\ ~h.results[i].success => h.results[i].error # None

\* the first component failed and the second one was installed all the same
C5_Witness ==
    /\ history # <<>>
    /\ ~history[Len(history)].threw
    /\ Len(history[Len(history)].results) = 2
    /\ ~history[Len(history)].results[1].success
    /\ history[Len(history)].results[2].success

\* C6: with force unset, the step taken when the k-th file's target path exists
\* records a failure for the component whose error names that path, writes
\* nothing, abandons the component (files k..n are never written), and the
\* files 1..k-1 it had written are on disk with their adapted content; no step
\* of a run with force unset removes or changes a file that is on disk.
C6_ConflictStopsComponent ==
    [][ /\ (Installing /\ ~force /\ fi <= Len(CurrentComponent.files)
              /\ ExistsSync(fs, FilePathOf(CurrentComponent, CurrentFile)))
           => /\ results' = Append(results,
                     [component |-> CurrentComponent.name, success |-> FALSE, files |-> None,
                      dependencies |-> None,
                      error |-> Some(FileExistsMessage(FilePathOf(CurrentComponent, CurrentFile)))])
              /\ fs' = fs
              /\ ci' = ci + 1
              /\ Len(installedFiles) = fi - 1
              /\ \A j \in 1..(fi - 1) :
                    /\ installedFiles[j] = PathsOf(CurrentComponent)[j]
                    /\ ~dryRun =>
                          /\ ExistsSync(fs', installedFiles[j])
                          /\ fs'[installedFiles[j]] =
                                ProcessFileContent(CurrentComponent.files[j].content, typescript)
        /\ ~force => \A q \in DOMAIN fs : q \in DOMAIN fs' /\ fs'[q] = fs[q]
      ]_vars

\* card failed on its second file, which was on disk before the call, after its
\* first file had been written
C6_Witness ==
    /\ ~force /\ ~dryRun
    /\ pc = "install"
    /\ results # <<>>
    /\ results[Len(results)] =
          FailureResult(server["card"].data, FileExistsMessage(<<"ui", "card", "card.svelte">>))
    /\ <<"ui", "card", "card.svelte">> \in DOMAIN fsAtCall
    /\ <<"ui", "card", "index.ts">> \in DOMAIN fs \ DOMAIN fsAtCall

\* all target paths of a run's components, in installation order
RECURSIVE RunPaths(_)
RunPaths(components) ==
    IF components = <<>> THEN <<>>
    ELSE PathsOf(Head(components)) \o RunPaths(Tail(components))

\* two consecutive calls with the same request on an installer without force and dryRun
SameTwice(r) ==
    /\ r + 1 \in Runs
    /\ ~force /\ ~dryRun
    /\ history[r].ids = history[r + 1].ids
    /\ ~history[r].threw

RECURSIVE FirstConflict(_, _, _, _)
FirstConflict(paths, disk, forced, k) ==
    IF k > Len(paths) THEN 0
    ELSE IF ExistsSync(disk, paths[k]) /\ ~forced THEN k
    ELSE FirstConflict(paths, disk, forced, k + 1)

PreviewResult(component, disk, forced) ==
    LET k == FirstConflict(PathsOf(component), disk, forced, 1) IN
    IF k = 0
    THEN [component |-> component.name, success |-> TRUE, files |-> Some(PathsOf(component)),
          dependencies |-> Some(component.dependencies \o OrEmpty(component.devDependencies)),
          error |-> None]
    ELSE [component |-> component.name, success |-> FALSE, files |-> None,
          dependencies |-> None, error |-> Some(FileExistsMessage(PathsOf(component)[k]))]

PreviewResults(components, disk, forced) ==
    [i \in 1..Len(components) |-> PreviewResult(components[i], disk, forced)]

\* C8 as stated: a dry run leaves the disk unchanged, and every run, dry or
\* real, returns the results of the dry run from the same initial disk (the
\* dry run's checks all see the initial disk).
C8_DryRunSameResults ==
    \A r \in Runs :
        ~history[r].threw =>
            /\ dryRun => history[r].fsAfter = history[r].fsBefore
            /\ history[r].results =
                  PreviewResults(history[r].components, history[r].fsBefore, force)

\* the dry-run half of C8 alone: it holds, and shows PreviewResults to be what
\* a dry run returns
DryRunIsPreview ==
    \A r \in Runs :
        (dryRun /\ ~history[r].threw) =>
            /\ history[r].fsAfter = history[r].fsBefore
            /\ history[r].results =
                  PreviewResults(history[r].components, history[r].fsBefore, force)

\* names contributed by the components of a run whose result is a success
SuccessfulDeps(h) ==
    UNION {Range(AllDeps(h.components[i])) : i \in {j \in 1..Len(h.results) : h.results[j].success}}

\* C9: when installComponents returns, the dependency set is its value at the
\* call plus the dependencies and devDependencies of the components that
\* succeeded, each name once, nothing from a failed component; for the request
\* [card] with card depending on button the results are card, then button, and
\* with both successful on a fresh installer the set is the union of their lists.
C9_DepsOfSuccessfulComponents ==
    \A r \in Runs :
        LET h == history[r] IN
        ~h.threw =>
            /\ Range(h.depsAfter) = Range(h.depsBefore) \cup SuccessfulDeps(h)
            /\ NoDup(h.depsAfter)
            /\ (h.ids = <<"card">> /\ EdgesOf("card") = {"button"}) =>
                  /\ Len(h.results) = 2
                  /\ h.results[1].component = NameOf("card")
                  /\ h.results[2].component = NameOf("button")
                  /\ (h.results[1].success /\ h.results[2].success /\ h.depsBefore = <<>>) =>
                        Range(h.depsAfter) =
                            Range(CardDeps) \cup Range(OrEmpty(CardDevDeps)) \cup Range(ButtonDeps)

\* request [card]: card failed on an existing file, button succeeded, and the
\* set holds button's names only
C9_Witness ==
    /\ Len(history) = 1
    /\ history[1].ids = <<"card">>
    /\ Len(history[1].results) = 2
    /\ ~history[1].results[1].success
    /\ history[1].results[2].success
    /\ installedDeps = ButtonDeps

\* the subcommand each package manager takes to add packages
AddSubcommand(pm) == IF pm = "npm" THEN "install" ELSE "add"

\* C10: an installDependencies call made with an empty dependency set starts
\* no package-manager process; a call made with a non-empty set starts exactly
\* one, running the configured package manager with `install` (npm) or `add`
\* (yarn, pnpm, bun) followed by each name of the set exactly once.
C10_OneInvocation ==
    (lastOp = "installDependencies" /\ pc = "idle") =>
        IF depsAtCall = <<>>
        THEN execLog = execAtCall
        ELSE /\ Len(execLog) = Len(execAtCall) + 1
             /\ SubSeq(execLog, 1, Len(execAtCall)) = execAtCall
             /\ LET run == execLog[Len(execLog)] IN
                   /\ run.file = packageManager
                   /\ run.args[1] = AddSubcommand(packageManager)
                   /\ NoDup(Tail(run.args))
                   /\ Range(Tail(run.args)) = Range(depsAtCall)
                   /\ Range(depsAtCall) = Range(installedDeps)

\* yarn was run once with three names gathered from two components
C10_Witness ==
    /\ lastOp = "installDependencies" /\ pc = "idle"
    /\ packageManager = "yarn"
    /\ Len(execLog) = 1
    /\ execLog[1].args = <<"add", "clsx", "tailwind-merge", "bits-ui">>

\* ------------------------------------------------ notions for C11 and C12
\* positions at which pat occurs in str
Occurrences(str, pat) ==
    {i \in 1..(Len(str) - Len(pat) + 1) : SubSeq(str, i, i + Len(pat) - 1) = pat}

Count(str, pat) == Cardinality(Occurrences(str, pat))

\* C11: applying the content adapter to its own output gives that output again,
\* for every input text and either setting of config.typescript.
C11_AdaptIdempotent ==
    \A k \in 2..Len(adapted) : adapted[k] = adapted[k - 1]

\* an input mixing both alias tokens with both quoted .ts references was adapted
\* twice, and the first application changed it
C11_Witness ==
    /\ Len(adapted) >= 2
    /\ ~typescript
    /\ Count(text, ComponentsAlias) >= 1
    /\ Count(text, TsSingle) >= 1
    /\ Count(text, TsDouble) >= 1
    /\ adapted[1] # text

\* C12 as stated: with typescript disabled every .ts' and .ts" of the input
\* becomes .js' and .js"; with typescript enabled the output is the input.
C12_AsStated ==
    adapted # <<>> =>
        IF typescript
        THEN adapted[1] = text
        ELSE /\ Count(adapted[1], TsSingle) = 0
             /\ Count(adapted[1], TsDouble) = 0
             /\ Count(adapted[1], JsSingle) = Count(text, JsSingle) + Count(text, TsSingle)
             /\ Count(adapted[1], JsDouble) = Count(text, JsDouble) + Count(text, TsDouble)

\* C12 amended: with typescript disabled every .ts' and .ts" of the input
\* becomes .js' and .js"; with typescript enabled every .ts' and .ts" is kept,
\* and the output is the input unless the input holds a $components/ token
\* (each of which is rewritten to $lib/components/ under either setting).
C12_ExtensionsFollowTypescript ==
    adapted # <<>> =>
        /\ Len(adapted[1]) = Len(text)
              + (Len(LibComponents) - Len(ComponentsAlias)) * Count(text, ComponentsAlias)
        /\ Count(adapted[1], ComponentsAlias) = 0
        /\ IF typescript
           THEN /\ Count(adapted[1], TsSingle) = Count(text, TsSingle)
                /\ Count(adapted[1], TsDouble) = Count(text, TsDouble)
                /\ Count(adapted[1], JsSingle) = Count(text, JsSingle)
                /\ Count(adapted[1], JsDouble) = Count(text, JsDouble)
                /\ Count(text, ComponentsAlias) = 0 => adapted[1] = text
           ELSE /\ Count(adapted[1], TsSingle) = 0
                /\ Count(adapted[1], TsDouble) = 0
                /\ Count(adapted[1], JsSingle) = Count(text, JsSingle) + Count(text, TsSingle)
                /\ Count(adapted[1], JsDouble) = Count(text, JsDouble) + Count(text, TsDouble)

\* typescript enabled: a text with a .ts' reference and a $components/ token
\* kept the reference and lost the token
C12_Witness ==
    /\ adapted # <<>>
    /\ typescript
    /\ Count(text, TsSingle) = 1
    /\ Count(text, ComponentsAlias) = 1
    /\ Count(adapted[1], TsSingle) = 1
    /\ adapted[1] # text

\* ------------------------------------------------------ notions for C13
\* the directory d and its ancestors, nearest first, the root last
UpToRoot(d) == [i \in 1..(Len(d) + 1) |-> SubSeq(d, 1, Len(d) + 1 - i)]

HoldsCandidate(d, names) == \E n \in Range(names) : Append(d, n) \in projectTree

\* the earliest name of the list that exists in d
EarliestIn(d, names) ==
    Append(d, names[CHOOSE i \in 1..Len(names) :
                       /\ Append(d, names[i]) \in projectTree
                       /\ \A j \in 1..(i - 1) : Append(d, names[j]) \notin projectTree])

\* the search for the svelte config went through `levels` as the claim describes
SearchedAsDescribed(levels) ==
    LET holding == {i \in 1..Len(levels) : HoldsCandidate(levels[i], SvelteConfigNames)}
    IN IF holding = {}
       THEN svelteConfig = None /\ examined = levels
       ELSE LET k == CHOOSE i \in holding : \A j \in holding : i <= j
            IN /\ svelteConfig = Some(EarliestIn(levels[k], SvelteConfigNames))
               /\ examined = SubSeq(levels, 1, k)

\* C13 as stated: findUp looks into every level from the start directory up to
\* and including the filesystem root, returns the earliest-named candidate of
\* the nearest level that holds one, and null when no level holds one; analyze
\* then returns an invalid project with an error message.
C13_FindUpReachesRoot ==
    /\ dpc = "svelteChecked" => SearchedAsDescribed(UpToRoot(cwd))
    /\ dpc = "done" /\ svelteConfig = None =>
          projectInfo = Some(InvalidProject(NoSvelteConfigMessage))

\* what the code does: the same search over the levels strictly below the root
FindUpStopsBelowRoot ==
    /\ dpc = "svelteChecked" => SearchedAsDescribed(SubSeq(UpToRoot(cwd), 1, Len(cwd)))
    /\ dpc = "done" /\ svelteConfig = None =>
          projectInfo = Some(InvalidProject(NoSvelteConfigMessage))

\* ------------------------------------------------------ notions for C14
LockfilePriority ==
    << [lockfile |-> "bun.lockb", manager |-> "bun"],
       [lockfile |-> "pnpm-lock.yaml", manager |-> "pnpm"],
       [lockfile |-> "yarn.lock", manager |-> "yarn"] >>

LockfilesPresent == {l \in LockNames : Append(cwd, l) \in projectTree}

\* the manager of the first lockfile of the priority list that is present
ExpectedManager ==
    LET present == {i \in 1..Len(LockfilePriority) :
                       LockfilePriority[i].lockfile \in LockfilesPresent}
    IN IF present = {} THEN "npm"
       ELSE LockfilePriority[CHOOSE i \in present : \A j \in present : i <= j].manager

\* C14: whatever lockfiles the project directory holds, a valid analysis
\* reports the manager of the first of bun.lockb, pnpm-lock.yaml, yarn.lock that
\* is present, npm when none is; the executor is later run as that manager with
\* that manager's subcommand (install for npm, add for the others).
C14_DetectedManagerDrivesInstall ==
    /\ projectInfo # None /\ projectInfo[1].isValid =>
          projectInfo[1].config[1].packageManager = ExpectedManager
    /\ \A i \in 1..Len(execLog) :
          /\ execLog[i].file = ExpectedManager
          /\ execLog[i].args[1] = IF ExpectedManager = "npm" THEN "install" ELSE "add"

\* pnpm-lock.yaml and yarn.lock are both present, bun.lockb is not, and the
\* executor was run as pnpm add
C14_Witness ==
    /\ LockfilesPresent = {"pnpm-lock.yaml", "yarn.lock"}
    /\ Len(execLog) = 1
    /\ execLog[1].file = "pnpm"
    /\ execLog[1].args[1] = "add"

\* ------------------------------------------------------ notions for C20
\* C20: one run of the install command invokes the package-manager executor at
\* most once, and only after installComponents returned a result for every
\* resolved component, with dry-run unset, a valid project and a confirmation
\* that was given; a nonzero exit of the executor fails the run and leaves the
\* files installComponents wrote on disk.
C20_ExecutorOnceAfterInstall ==
    /\ Len(execLog) <= 1
    /\ execLog # <<>> =>
          /\ history # <<>>
          /\ ~LastCall.threw
          /\ Len(LastCall.results) = Len(LastCall.components)
          /\ ~dryRun
          /\ projectInfo # None /\ projectInfo[1].isValid
          /\ shouldContinue = Some(TRUE)
    /\ depThrew => cliPc \in {"deps", "exit1"} /\ fs = LastCall.fsAfter
    /\ cliPc = "complete" => ~depThrew

\* the executor exited nonzero after card and button had been written: the run
\* failed and both files are on disk
C20_Witness ==
    /\ cliPc = "exit1"
    /\ depThrew
    /\ Len(execLog) = 1
    /\ LastCall.fsBefore = <<>>
    /\ DOMAIN fs = {<<"ui", "card", "card.svelte">>, <<"ui", "button", "button.svelte">>}

\* ------------------------------------------------------ notions for C15
IsPrefix(s, t) == Len(s) <= Len(t) /\ SubSeq(t, 1, Len(s)) = s

\* C15: on one installer instance no step removes a name from installedDeps,
\* whatever the operation and its outcome, and an executor invocation is given
\* every name that any earlier installComponents call of the instance left in
\* the set; the set becomes empty only by the construction of a new installer.
C15_DepsOnlyGrow ==
    [][ /\ instances' = instances => IsPrefix(installedDeps, installedDeps')
        /\ instances' # instances => installedDeps' = <<>>
        /\ Len(execLog') > Len(execLog) =>
              \A i \in 1..Len(history) :
                 Range(history[i].depsAfter) \subseteq Range(Tail(execLog'[Len(execLog')].args))
      ]_vars

\* the first installer ran the executor with the names that two
\* installComponents calls had gathered, the first call for button alone; the
\* installer constructed after it has an empty set
C15_Witness ==
    /\ instances = 2
    /\ installedDeps = <<>>
    /\ Len(execLog) = 1
    /\ execLog[1].args = <<"add", "clsx", "bits-ui", "tailwind-merge">>

\* ------------------------------------------------------ notions for C16
Occurs(s, x) == Cardinality({i \in 1..Len(s) : s[i] = x})

\* the ids that this step pushes onto the queue
NewlyAppended == {appended'[i] : i \in (Len(appended) + 1)..Len(appended')}

\* the resolved components that list id among their registry dependencies
ListedBy(id) ==
    {i \in 1..Len(resolved) : id \in Range(OrEmpty(resolved[i].value.registryDependencies))}

InstallerContents(path) ==
    UNION {{ProcessFileContent(server[id].data.files[k].content, typescript) :
               k \in {j \in 1..Len(server[id].data.files) :
                         FilePathOf(server[id].data, server[id].data.files[j]) = path}} :
           id \in {i \in AllIds : server[i].ok /\ server[i].valid}}

AllResults == results \o (IF history = <<>> THEN <<>> ELSE history[Len(history)].results)

\* C18: with force unset, a file that another process creates after the
\* installer's existence check of its path and before the installer's write is
\* overwritten with the adapted content, and no file-exists error is reported
\* for its path; a component is reported successful when no file of it was
\* created by another process outside that window.
C18_RaceOverwrites ==
    ~force =>
      /\ \A path \in raced :
            /\ IF InWindow(path) THEN fs[path] = ExternalText
               ELSE fs[path] \in InstallerContents(path)
            /\ \A i \in 1..Len(AllResults) :
                   AllResults[i].error # Some(FileExistsMessage(path))
      /\ \A h \in Range(history) : \A i \in 1..Len(h.results) :
            Range(PathsOf(h.components[i])) \cap (external \ raced) = {} =>
               h.results[i].success

\* card.svelte was created by another process inside the window and index.ts
\* was not touched: card is reported successful with both files, and
\* card.svelte holds the adapted content
C18_Witness ==
    /\ ~force /\ ~dryRun
    /\ raced = {<<"ui", "card", "card.svelte">>}
    /\ external = raced
    /\ history # <<>>
    /\ history[1].ids = <<"card">>
    /\ history[1].results[1].success
    /\ history[1].results[1].files = Some(<<<<"ui", "card", "card.svelte">>, <<"ui", "card", "index.ts">>>>)
    /\ fs[<<"ui", "card", "card.svelte">>] = ProcessFileContent(CardSvelteText, FALSE)

\* ---------------------------------------------- notions for C17 and C19
\* the position in events of the start of call i (its cache hit or its fetch)
StartOf(i) == CHOOSE n \in 1..Len(events) : events[n].call = i /\ events[n].op \in {"hit", "fetch"}

\* the positions in events at which a fetch for id settled successfully
SuccessesOf(id) == {n \in 1..Len(events) : events[n].op = "ok" /\ rcalls[events[n].call].id = id}

IssuedFetch(i) == events[StartOf(i)].op = "fetch"

FetchCount(id) == Cardinality({i \in 1..Len(rcalls) : rcalls[i].id = id /\ IssuedFetch(i)})

BatchMembers == IF batch = None THEN <<>> ELSE Members(batch[1])

BatchIs(state) == batch # None /\ batch[1].state = state

\* C17 as stated: getComponents has started a call for each of its ids, and
\* it is settled only when none of their fetches is outstanding: fulfilled with
\* the descriptors in the order of the ids, rejected if one of them failed.
C17_SettlesAfterAllComplete ==
    batch # None =>
      /\ \A k \in 1..Len(batch[1].ids) : rcalls[BatchMembers[k]].id = batch[1].ids[k]
      /\ ~BatchIs("pending") => \A i \in Range(BatchMembers) : rcalls[i].state # "fetching"
      /\ BatchIs("fulfilled") =>
            batch[1].value = [k \in 1..Len(batch[1].ids) |-> server[batch[1].ids[k]].data]
      /\ (\E i \in Range(BatchMembers) : rcalls[i].state = "failed") => BatchIs("rejected")

\* C17 amended: getComponents starts a getComponent call for each of its ids,
\* in order, before any of them settles; a member whose id is cached issues no
\* fetch.  It is fulfilled only when every member is fulfilled, with the
\* descriptors in the order of the ids whatever the order the fetches settled
\* in.  It is rejected as soon as one member fails, other fetches still being
\* outstanding or not, and only then.
C17_FulfilsAfterAllRejectsAtFirst ==
    /\ [](batch # None =>
            /\ \A k \in 1..Len(batch[1].ids) : rcalls[BatchMembers[k]].id = batch[1].ids[k]
            /\ BatchIs("fulfilled") <=> \A i \in Range(BatchMembers) : rcalls[i].state = "done"
            /\ BatchIs("fulfilled") =>
                  batch[1].value = [k \in 1..Len(batch[1].ids) |-> server[batch[1].ids[k]].data]
            /\ BatchIs("rejected") <=> \E i \in Range(BatchMembers) : rcalls[i].state = "failed")
    /\ [][batch = None /\ batch' # None =>
            \A i \in Range(Members(batch'[1])) :
               /\ i > Len(rcalls)
               /\ IF rcalls'[i].id \in DOMAIN cache
                  THEN rcalls'[i].state = "done" /\ ~IssuedFetch(i)'
                  ELSE rcalls'[i].state = "fetching" /\ IssuedFetch(i)']_vars

\* getComponents(card, button) was fulfilled after button's fetch had settled
\* before card's
C17_Witness ==
    /\ BatchIs("fulfilled")
    /\ batch[1].ids = <<"card", "button">>
    /\ \A i \in Range(BatchMembers) : IssuedFetch(i)
    /\ \E m, n \in 1..Len(events) :
          /\ m < n
          /\ events[m] = [op |-> "ok", call |-> BatchMembers[2]]
          /\ events[n] = [op |-> "ok", call |-> BatchMembers[1]]

\* C19 as stated: however the calls interleave, at most one fetch is issued
\* for an id that the registry serves, and the cache holds exactly the ids
\* fetched successfully.
C19_OneFetchPerId ==
    /\ \A id \in AllIds : FetchSucceeds(id) => FetchCount(id) <= 1
    /\ DOMAIN cache = {id \in AllIds : SuccessesOf(id) # {}}

\* C19 amended: a getComponent call issues a fetch exactly when no fetch for
\* its id has settled successfully before the call starts; otherwise it returns
\* the cached descriptor, the one that fetch returned.  Calls for one id that
\* start before the first of their fetches has settled each issue a fetch.  A
\* fetch that fails leaves the cache as it is, so the cache holds exactly the
\* ids fetched successfully.
C19_FetchUnlessCached ==
    /\ [](\A i \in 1..Len(rcalls) :
            /\ IssuedFetch(i) <=> \A n \in SuccessesOf(rcalls[i].id) : n > StartOf(i)
            /\ rcalls[i].state = "done" => rcalls[i].value = Some(server[rcalls[i].id].data))
    /\ [](DOMAIN cache = {id \in AllIds : SuccessesOf(id) # {}})
    /\ [][Len(events') > Len(events) /\ events'[Len(events')].op = "fail" => cache' = cache]_vars

\* two calls for card overlapped and both fetched; a third call, made after
\* they had settled, was served from the cache
C19_Witness ==
    /\ Len(rcalls) = 3
    /\ \A i \in 1..3 : rcalls[i].id = "card" /\ rcalls[i].state = "done"
    /\ IssuedFetch(1) /\ IssuedFetch(2) /\ ~IssuedFetch(3)
    /\ FetchCount("card") = 2

\* the queue bound of the model never cuts a run of the code short
QueueWithinBound == Len(toResolve) < MaxQueue

====
